---- MODULE Spec2Model ----
(***************************************************************************)
(* Model of the WAF rule relationship analyzer                             *)
(* (optimization_recs_module/rule_analyzer.py), of the AI enrichment step  *)
(* (ai_processor.py) and of the analyze_rules endpoint (views.py).         *)
(*                                                                         *)
(* A rule pattern is a regular expression over words; a request text is    *)
(* the sequence of words ' '.join builds.  A compiled pattern is one of    *)
(*   "word"   : the word occurs anywhere in the text (re.search),          *)
(*   "anchor" : the text starts with the word ("^word"),                   *)
(*   "fragile": as "word", but the search raises on a text that holds the  *)
(*              word "b",                                                  *)
(* and None when neither re.compile(pat) nor re.compile(re.escape(pat))    *)
(* produced a matcher.                                                     *)
(***************************************************************************)
EXTENDS Integers, Sequences, FiniteSets, TLC

VARIABLES
    rules_df,            \* sequence of rule rows (the DataFrame, in file order)
    traffic_df,          \* sequence of traffic rows
    sample_fuzz_trials,  \* constructor argument
    analysis_types,      \* argument of analyze_all_relationships
    compiled,            \* rules_df['_re']: row index -> matcher or None
    match_matrix,        \* rule_id -> set of transaction ids
    relationships,       \* self.relationships
    shadowed_rules_set,  \* self.shadowed_rules_set
    rule_ids,            \* rule ids in execution order (analyze_all_relationships)
    i, j,                \* outer and inner loop positions in rule_ids
    analyzed,            \* the <<rule_a, rule_b>> of the analyze_rule_pair calls of this analysis
    pc,                  \* where the caller stands
    returned,            \* the results analyze_all_relationships has returned, in call order
    db_rows,             \* RuleRelationship rows stored by analyze_rules
    response             \* the HTTP response of analyze_rules, or None

vars == <<rules_df, traffic_df, sample_fuzz_trials, analysis_types, compiled,
          match_matrix, relationships, shadowed_rules_set, rule_ids, i, j, analyzed,
          pc, returned, db_rows, response>>

None == "None"           \* Python None: a rule name a relationship dict does not have
NoValue == <<>>          \* a number or list a relationship dict does not have
NoneRe == [kind |-> "None", tok |-> "", ignorecase |-> FALSE]   \* cre = None
NaN == "NaN"             \* pandas missing value
NaNNum == 0 - 1          \* pandas missing value in a numeric column (float nan)

-----------------------------------------------------------------------------
(* Bounds of the model *)
MaxRules == 2            \* rules of a rule file that vary freely
MaxPerKind == 1          \* traffic rows of each kind of request
MaxPhase == 1            \* phase values 0..MaxPhase
MaxPriority == 1         \* priority values 0..MaxPriority
MaxCalls == 2            \* calls of analyze_all_relationships on one analyzer
\* the requests of each kind in the larger traffic samples
CorOnlyA == 2
CorOnlyB == 6
CorBoth == 3
CorNeither == 19
ThrOnlyB == 1
ManySame == 11
NearOnly == 3
NearBoth == 17
ThrBoth == 3

(* Program constants *)
DefaultPhase == 2
DefaultPriority == 1000
DefaultFuzzTrials == 200
EvidenceCap == 10
MinCorSupport == 3
SpecSampleCap == 200
RandomTrialCap == 50

-----------------------------------------------------------------------------
(* Small helpers *)
Min(a, b) == IF a <= b THEN a ELSE b
Max(a, b) == IF a >= b THEN a ELSE b

RECURSIVE SetToSeq(_)
\* list(s) for a set of transaction ids: ascending order
SetToSeq(S) ==
    IF S = {} THEN <<>>
    ELSE LET m == CHOOSE x \in S : \A y \in S : x <= y
         IN <<m>> \o SetToSeq(S \ {m})

\* s[:n] without the cut
TakeAll(s, n) == s
Take(s, n) == IF n <= 0 THEN <<>> ELSE SubSeq(s, 1, Min(n, Len(s)))
Range(s) == {s[k] : k \in 1..Len(s)}

\* str.lower() on the action strings of the model
Lower(s) ==
    CASE s = "DENY" -> "deny"
      [] s = "Block" -> "block"
      [] s = "I" -> "i"
      [] s = "B" -> "b"
      [] OTHER -> s

\* str(value) of a cell
Str(v) == IF v = NaN THEN "nan" ELSE v

-----------------------------------------------------------------------------
(* IEEE-754 double arithmetic, as Python's float computes len(x) / total,    *)
(* x * y and x / y: every operation is the exact result rounded to 53 bits,  *)
(* ties to even.  A natural number is a little-endian sequence of limbs in   *)
(* base 2^14 without leading zero limbs; a positive double is mant * 2^exp   *)
(* with 2^52 <= mant < 2^53, and 0.0 has the empty mantissa.                 *)
LimbBits == 14
MantBits == 53
Base == 16384

RECURSIVE Pow2(_)
Pow2(n) == IF n = 0 THEN 1 ELSE 2 * Pow2(n - 1)

RECURSIVE BitLen(_)
BitLen(n) == IF n = 0 THEN 0 ELSE 1 + BitLen(n \div 2)

RECURSIVE BNorm(_)
BNorm(a) == IF a # <<>> /\ a[Len(a)] = 0 THEN BNorm(SubSeq(a, 1, Len(a) - 1)) ELSE a

RECURSIVE BN(_)
BN(n) == IF n = 0 THEN <<>> ELSE <<n % Base>> \o BN(n \div Base)

Limb(a, k) == IF k >= 1 /\ k <= Len(a) THEN a[k] ELSE 0

RECURSIVE BCmpFrom(_, _, _)
BCmpFrom(a, b, k) ==
    IF k = 0 THEN 0
    ELSE IF a[k] < b[k] THEN -1
    ELSE IF a[k] > b[k] THEN 1
    ELSE BCmpFrom(a, b, k - 1)
\* -1, 0, 1 as a < b, a = b, a > b
BCmp(a, b) ==
    IF Len(a) < Len(b) THEN -1
    ELSE IF Len(a) > Len(b) THEN 1
    ELSE BCmpFrom(a, b, Len(a))

RECURSIVE BAddFrom(_, _, _, _)
BAddFrom(a, b, k, carry) ==
    IF k > Len(a) /\ k > Len(b)
    THEN (IF carry = 0 THEN <<>> ELSE <<carry>>)
    ELSE LET s == Limb(a, k) + Limb(b, k) + carry
         IN <<s % Base>> \o BAddFrom(a, b, k + 1, s \div Base)
BAdd(a, b) == BAddFrom(a, b, 1, 0)

RECURSIVE BSubFrom(_, _, _, _)
BSubFrom(a, b, k, borrow) ==
    IF k > Len(a) THEN <<>>
    ELSE LET d == a[k] - Limb(b, k) - borrow
         IN IF d < 0 THEN <<d + Base>> \o BSubFrom(a, b, k + 1, 1)
            ELSE <<d>> \o BSubFrom(a, b, k + 1, 0)
\* a - b for a >= b
BSub(a, b) == BNorm(BSubFrom(a, b, 1, 0))

RECURSIVE BMulSmallFrom(_, _, _, _)
BMulSmallFrom(a, m, k, carry) ==
    IF k > Len(a) THEN (IF carry = 0 THEN <<>> ELSE <<carry>>)
    ELSE LET p == a[k] * m + carry
         IN <<p % Base>> \o BMulSmallFrom(a, m, k + 1, p \div Base)
\* a * m for 0 <= m < Base
BMulSmall(a, m) == IF m = 0 THEN <<>> ELSE BMulSmallFrom(a, m, 1, 0)

BShiftLimbs(a, n) == IF a = <<>> THEN <<>> ELSE [k \in 1..n |-> 0] \o a

RECURSIVE BMulFrom(_, _, _)
BMulFrom(a, b, k) ==
    IF k > Len(b) THEN <<>>
    ELSE BAdd(BShiftLimbs(BMulSmall(a, b[k]), k - 1), BMulFrom(a, b, k + 1))
BMul(a, b) == BMulFrom(a, b, 1)

\* a * 2^n
BShl(a, n) == BShiftLimbs(BMulSmall(a, Pow2(n % LimbBits)), n \div LimbBits)

BBitLen(a) == IF a = <<>> THEN 0 ELSE (Len(a) - 1) * LimbBits + BitLen(a[Len(a)])

RECURSIVE BFitDigit(_, _, _)
\* the largest q <= guess with q * d <= r
BFitDigit(r, d, guess) ==
    IF BCmp(BMulSmall(d, guess), r) = 1 THEN BFitDigit(r, d, guess - 1) ELSE guess

\* floor(r / d) for r < d * Base and d with a top limb >= Base / 2
BDigit(r, d) ==
    IF BCmp(r, d) = -1 THEN 0
    ELSE BFitDigit(r, d, Min((Limb(r, Len(d) + 1) * Base + r[Len(d)]) \div d[Len(d)],
                             Base - 1))

RECURSIVE BDivFrom(_, _, _, _, _)
RECURSIVE BDivStep(_, _, _, _, _)
RECURSIVE BDivDigit(_, _, _, _, _, _)
\* long division of the limbs k, k-1, .., 1 of a by d; <<quotient, remainder>>
BDivFrom(a, d, k, q, r) ==
    IF k = 0 THEN <<BNorm(q), r>>
    ELSE BDivStep(a, d, k, q, BNorm(<<a[k]>> \o r))
BDivStep(a, d, k, q, r1) == BDivDigit(a, d, k, q, r1, BDigit(r1, d))
BDivDigit(a, d, k, q, r1, dg) ==
    BDivFrom(a, d, k - 1, <<dg>> \o q, BSub(r1, BMulSmall(d, dg)))

\* <<floor(a / d), whether a is a multiple of d>> for d > 0; both are shifted
\* so that d has a top limb >= Base / 2
BDivPair(qr) == <<qr[1], qr[2] = <<>> >>
BDivNorm(a1, d1) == BDivPair(BDivFrom(a1, d1, Len(a1), <<>>, <<>>))
BDivShift(a, d, t) == BDivNorm(BShl(a, t), BShl(d, t))
BDivExact(a, d) == BDivShift(a, d, LimbBits - BitLen(d[Len(d)]))

\* floor(a / 2^n)
BShr(a, n) ==
    IF n \div LimbBits >= Len(a) THEN <<>>
    ELSE BDivExact(SubSeq(a, n \div LimbBits + 1, Len(a)), <<Pow2(n % LimbBits)>>)[1]

FZero == [mant |-> <<>>, exp |-> 0]

\* q * 2^e (plus a non-zero fraction below q's last bit when sticky), rounded
\* to 53 bits: extra low bits are cut, c compares them with one half
FNormal(m, e) ==
    IF BBitLen(m) > MantBits THEN [mant |-> BShr(m, 1), exp |-> e + 1]
    ELSE [mant |-> m, exp |-> e]
FRoundUp(m, e, sticky, c) ==
    FNormal(IF c = 1 \/ (c = 0 /\ (sticky \/ Limb(m, 1) % 2 = 1))
            THEN BAdd(m, <<1>>) ELSE m, e)
FRoundMant(q, sticky, e, extra, m) ==
    FRoundUp(m, e, sticky, BCmp(BSub(q, BShl(m, extra)), BShl(<<1>>, extra - 1)))
FRoundBy(q, sticky, e, extra) ==
    IF extra <= 0 THEN [mant |-> BShl(q, 0 - extra), exp |-> e + extra]
    ELSE FRoundMant(q, sticky, e + extra, extra, BShr(q, extra))
FRound(q, sticky, e) == FRoundBy(q, sticky, e, BBitLen(q) - MantBits)

\* n / d * 2^e rounded, for natural numbers n and d > 0 given by their limbs
FQuotRound(qe, e) == FRound(qe[1], ~qe[2], e)
FQuotShift(n, d, e, s) == FQuotRound(BDivExact(BShl(n, s), d), e - s)
FQuot(n, d, e) ==
    IF n = <<>> THEN FZero
    ELSE FQuotShift(n, d, e, MantBits + 1 + BBitLen(d) - BBitLen(n))

\* p / q of two Python ints (true division)
FDivInt(p, q) == FQuot(BN(p), BN(q), 0)
\* x * y
FMul(x, y) ==
    IF x.mant = <<>> \/ y.mant = <<>> THEN FZero
    ELSE FRound(BMul(x.mant, y.mant), FALSE, x.exp + y.exp)
\* x / y for y # 0.0
FDiv(x, y) == FQuot(x.mant, y.mant, x.exp - y.exp)

\* x > n for a double x and a natural number n
FGreaterInt(x, n) ==
    /\ x.mant # <<>>
    /\ \/ n = 0
       \/ x.exp >= 0
       \/ BCmp(x.mant, BShl(BN(n), 0 - x.exp)) = 1

-----------------------------------------------------------------------------
(* Rules and the compilation of their patterns *)

RuleIdSet == {rules_df[k].rule_id : k \in 1..Len(rules_df)}

\* the first row whose rule_id is id (rules_df[rules_df['rule_id'].astype(str) == id].iloc[0])
RowOf(id) ==
    LET ks == {k \in 1..Len(rules_df) : rules_df[k].rule_id = id}
    IN rules_df[CHOOSE k \in ks : \A m \in ks : k <= m]
IndexOf(id) ==
    LET ks == {k \in 1..Len(rules_df) : rules_df[k].rule_id = id}
    IN CHOOSE k \in ks : \A m \in ks : k <= m

\* 'i' in str(row.get('flags', '')).lower(): the flag strings of the rule files
\* here are '', 'i', 'I' and the 'nan' of a missing value
IgnoreCase(row) == Lower(Str(row.flags)) = "i"

\* re.compile(pat, flags), falling back to re.compile(re.escape(pat), flags)
CompileRule(row) ==
    CASE row.pattern.kind = "word" ->
            [kind |-> "word", tok |-> row.pattern.tok, ignorecase |-> IgnoreCase(row)]
      [] row.pattern.kind = "anchor" ->
            [kind |-> "anchor", tok |-> row.pattern.tok, ignorecase |-> IgnoreCase(row)]
      [] row.pattern.kind = "invalid" ->
            [kind |-> "word", tok |-> row.pattern.tok, ignorecase |-> IgnoreCase(row)]
      [] row.pattern.kind = "fragile" ->
            [kind |-> "fragile", tok |-> row.pattern.tok, ignorecase |-> IgnoreCase(row)]
      [] OTHER -> NoneRe

\* whether the compiled pattern accepts the word w where it expects its token
TokMatches(cre, w) == IF cre.ignorecase THEN Lower(w) = Lower(cre.tok) ELSE w = cre.tok

\* cre.search(text)
Search(cre, text) ==
    CASE cre.kind \in {"word", "fragile"} -> \E k \in 1..Len(text) : TokMatches(cre, text[k])
      [] cre.kind = "anchor" -> Len(text) >= 1 /\ TokMatches(cre, text[1])
      [] OTHER -> FALSE
\* cre.search(text) raises
SearchRaises(cre, text) == cre.kind = "fragile" /\ \E k \in 1..Len(text) : text[k] = "b"

\* _rule_order_key: (int(phase or 2), int(priority or 1000))
RuleOrderKey(row) ==
    << IF row.phase = 0 THEN DefaultPhase ELSE row.phase,
       IF row.priority = 0 THEN DefaultPriority ELSE row.priority >>

\* int(nan) raises ValueError, and nan is truthy, so "nan or 2" is nan
OrderKeyRaises(row) == row.phase = NaNNum \/ row.priority = NaNNum

KeyLess(k1, k2) == k1[1] < k2[1] \/ (k1[1] = k2[1] /\ k1[2] < k2[2])

\* sorted(rules, key=_rule_order_key): stable, so equal keys keep the file order
OrderedRules ==
    LET n == Len(rules_df)
        Before(a, b) == \/ KeyLess(RuleOrderKey(rules_df[a]), RuleOrderKey(rules_df[b]))
                        \/ /\ RuleOrderKey(rules_df[a]) = RuleOrderKey(rules_df[b])
                           /\ a < b
        Rank(a) == 1 + Cardinality({b \in 1..n : Before(b, a)})
    IN [p \in 1..n |-> rules_df[CHOOSE a \in 1..n : Rank(a) = p]]

-----------------------------------------------------------------------------
(* Traffic and the match matrix *)

\* _row_request_text: request_uri, user_agent, matched_data, missing values omitted
RowRequestText(t) ==
    (IF t.request_uri # NaN THEN <<t.request_uri>> ELSE <<>>)
    \o (IF t.user_agent # NaN THEN <<t.user_agent>> ELSE <<>>)
    \o (IF t.matched_data # NaN THEN <<t.matched_data>> ELSE <<>>)

\* the text the containment fuzzer builds: matched_data, request_uri, user_agent
FuzzText(t) == << Str(t.matched_data), Str(t.request_uri), Str(t.user_agent) >>

\* _build_match_matrix in which a matcher that raises ends the scan of its rule
\* and leaves the rule without matches
BuildMatchMatrixDropRule(cres) ==
    [id \in RuleIdSet |->
        UNION { IF \/ cres[k] = NoneRe
                   \/ \E m \in 1..Len(traffic_df) :
                        SearchRaises(cres[k], RowRequestText(traffic_df[m]))
                THEN {}
                ELSE {traffic_df[n].transaction_id :
                        n \in {m \in 1..Len(traffic_df) :
                                 Search(cres[k], RowRequestText(traffic_df[m]))}}
              : k \in {m \in 1..Len(rules_df) : rules_df[m].rule_id = id} }]
\* _build_match_matrix; a rule without matcher, or without match, has no entry,
\* which match_matrix.get(id, set()) reads as the empty set; a search that
\* raises is passed over
BuildMatchMatrix(cres) ==
    [id \in RuleIdSet |->
        UNION { IF cres[k] = NoneRe THEN {}
                ELSE {traffic_df[n].transaction_id :
                        n \in {m \in 1..Len(traffic_df) :
                                 /\ ~SearchRaises(cres[k], RowRequestText(traffic_df[m]))
                                 /\ Search(cres[k], RowRequestText(traffic_df[m]))}}
              : k \in {m \in 1..Len(rules_df) : rules_df[m].rule_id = id} }]

MatchSet(id) == IF id \in DOMAIN match_matrix THEN match_matrix[id] ELSE {}

-----------------------------------------------------------------------------
(* Ratios of two counts.  A ratio <<n, d>> stands for the double n / d; one    *)
(* correctly rounded quotient of two counts compares with another one, and   *)
(* with a decimal literal, as the exact quotients do.                        *)
Ratio(n, d) == <<n, d>>
RGreater(x, y) == x[1] * y[2] > y[1] * x[2]
RGeq(x, y) == x[1] * y[2] >= y[1] * x[2]
REq(x, y) == x[1] * y[2] = y[1] * x[2]
RMax(x, y) == IF RGeq(x, y) THEN x ELSE y

ShadowThreshold == Ratio(75, 100)        \* shadow_confidence > 0.75
CoOccurrenceThreshold == Ratio(85, 100)  \* co_occurrence_rate > 0.85
JaccardThreshold == Ratio(70, 100)       \* jaccard > 0.7
ContainmentThreshold == Ratio(99, 100)   \* containment_threshold = 0.99
LiftThreshold == 2                       \* lift > 2.0

BlockingActions == {"block", "blocked", "deny"}
KnownTypes == {"SHD", "RXD", "COR", "SUB"}

\* a relationship dict; a key the dict does not have reads None (dict.get), or
\* NoValue where the other relationships hold a number or a list
Rel(type, a, b, subsuming, subsumed, conf, count, evidence, jac, lft) ==
    [relationship_type |-> type, rule_a |-> a, rule_b |-> b,
     subsuming_rule |-> subsuming, subsumed_rule |-> subsumed,
     confidence |-> conf, evidence_count |-> count, evidence_tx_ids |-> evidence,
     jaccard |-> jac, lift |-> lft]

\* position of the first occurrence of id in the execution order (list.index)
PosIn(order, id) == CHOOSE p \in 1..Len(order) :
                        order[p] = id /\ \A q \in 1..(p - 1) : order[q] # id

\* _get_rule_meta(er, 'action') is a blocking action
IsBlocking(id) == Lower(RowOf(id).action) \in BlockingActions

\* the transactions of set_b that an earlier rule matches, whatever its action
BlockedTxAnyAction(order, rule_b, set_b) ==
    LET earlier == {order[p] : p \in 1..(PosIn(order, rule_b) - 1)}
    IN {tx \in set_b : \E er \in earlier : tx \in MatchSet(er)}
\* the transactions of set_b that an earlier blocking rule matches
BlockedTx(order, rule_b, set_b) ==
    LET earlier == {order[p] : p \in 1..(PosIn(order, rule_b) - 1)}
    IN {tx \in set_b : \E er \in earlier : tx \in MatchSet(er) /\ IsBlocking(er)}

\* _detect_shadowing that counts the transactions rule_a itself blocks
DetectShadowingOwn(rule_a, rule_b, set_a, set_b, order) ==
    IF PosIn(order, rule_a) >= PosIn(order, rule_b) THEN <<>>
    ELSE LET evidence_tx == SetToSeq(IF IsBlocking(rule_a) THEN set_a \cap set_b ELSE {})
             total_b == IF Cardinality(set_b) = 0 THEN 1 ELSE Cardinality(set_b)
             shadow_confidence == Ratio(Len(evidence_tx), total_b)
         IN IF RGreater(shadow_confidence, ShadowThreshold) /\ Len(evidence_tx) > 0
            THEN << Rel("SHD", rule_a, rule_b, None, None, shadow_confidence,
                        Len(evidence_tx), Take(evidence_tx, EvidenceCap), NoValue, NoValue) >>
            ELSE <<>>
\* _detect_shadowing: the relationships it returns (none or one)
DetectShadowing(rule_a, rule_b, set_a, set_b, order) ==
    IF PosIn(order, rule_a) >= PosIn(order, rule_b) THEN <<>>
    ELSE LET evidence_tx == SetToSeq(BlockedTx(order, rule_b, set_b))
             total_b == IF Cardinality(set_b) = 0 THEN 1 ELSE Cardinality(set_b)
             shadow_confidence == Ratio(Len(evidence_tx), total_b)
         IN IF RGreater(shadow_confidence, ShadowThreshold) /\ Len(evidence_tx) > 0
            THEN << Rel("SHD", rule_a, rule_b, None, None, shadow_confidence,
                        Len(evidence_tx), Take(evidence_tx, EvidenceCap), NoValue, NoValue) >>
            ELSE <<>>

\* the transactions either rule matches, relative to the smaller match set
CoOccurrenceOfUnion(set_a, set_b) ==
    Ratio(Cardinality(set_a \cup set_b),
          Max(1, Min(Cardinality(set_a), Cardinality(set_b))))
\* the overlap taken relative to the first rule's matches alone
CoOccurrenceOfFirst(set_a, set_b) ==
    Ratio(Cardinality(set_a \cap set_b), Max(1, Cardinality(set_a)))
CoOccurrenceRate(set_a, set_b) ==
    Ratio(Cardinality(set_a \cap set_b),
          Max(1, Min(Cardinality(set_a), Cardinality(set_b))))
\* the intersection over the sum of the sizes, common transactions counted twice
JaccardOfSum(set_a, set_b) ==
    IF Cardinality(set_a) + Cardinality(set_b) # 0
    THEN Ratio(Cardinality(set_a \cap set_b), Cardinality(set_a) + Cardinality(set_b))
    ELSE Ratio(0, 1)
Jaccard(set_a, set_b) ==
    IF Cardinality(set_a \cup set_b) # 0
    THEN Ratio(Cardinality(set_a \cap set_b), Cardinality(set_a \cup set_b))
    ELSE Ratio(0, 1)

\* _detect_redundancy that reports when either threshold is passed
DetectRedundancyEither(rule_a, rule_b, set_a, set_b) ==
    IF set_a = {} /\ set_b = {} THEN <<>>
    ELSE IF \/ RGreater(CoOccurrenceRate(set_a, set_b), CoOccurrenceThreshold)
            \/ RGreater(Jaccard(set_a, set_b), JaccardThreshold)
         THEN << Rel("RXD", rule_a, rule_b, None, None, CoOccurrenceRate(set_a, set_b),
                     Cardinality(set_a \cap set_b), NoValue, Jaccard(set_a, set_b), NoValue) >>
         ELSE <<>>

\* _detect_redundancy
DetectRedundancy(rule_a, rule_b, set_a, set_b) ==
    IF set_a = {} /\ set_b = {} THEN <<>>
    ELSE IF /\ RGreater(CoOccurrenceRate(set_a, set_b), CoOccurrenceThreshold)
            /\ RGreater(Jaccard(set_a, set_b), JaccardThreshold)
         THEN << Rel("RXD", rule_a, rule_b, None, None, CoOccurrenceRate(set_a, set_b),
                     Cardinality(set_a \cap set_b), NoValue, Jaccard(set_a, set_b), NoValue) >>
         ELSE <<>>

\* a double as a relationship field
FloatField(x) == <<x.mant, x.exp>>
\* the confidence min(math.log2(lift) / 5.0 + 0.2, 1.0), kept as the lift it is
\* computed from
CorConfidence(lift) == <<"log2", lift.mant, lift.exp>>

\* total, expected and lift of _detect_correlation, as doubles
CorTotal == Max(1, Len(traffic_df))
CorExpected(set_a, set_b) ==
    FMul(FDivInt(Cardinality(set_a), CorTotal), FDivInt(Cardinality(set_b), CorTotal))
CorLift(intersection, expected) == FDiv(FDivInt(intersection, CorTotal), expected)

\* _detect_correlation, the decision on lift and support
CorEmit(rule_a, rule_b, intersection, lift) ==
    IF intersection >= MinCorSupport /\ FGreaterInt(lift, LiftThreshold)
    THEN << Rel("COR", rule_a, rule_b, None, None, CorConfidence(lift), intersection,
                NoValue, NoValue, FloatField(lift)) >>
    ELSE <<>>
\* _detect_correlation, the guard on expected
CorDecide(rule_a, rule_b, intersection, expected) ==
    IF expected = FZero THEN <<>>
    ELSE CorEmit(rule_a, rule_b, intersection, CorLift(intersection, expected))
\* _detect_correlation
DetectCorrelation(rule_a, rule_b, set_a, set_b) ==
    CorDecide(rule_a, rule_b, Cardinality(set_a \cap set_b), CorExpected(set_a, set_b))

\* the traffic row of a transaction id (traffic_df[transaction_id == tx].iloc[0])
TrafficRow(tx) ==
    LET ns == {n \in 1..Len(traffic_df) : traffic_df[n].transaction_id = tx}
    IN traffic_df[CHOOSE n \in ns : \A m \in ns : n <= m]

\* the example strings _fuzz_containment_test takes from the spec rule's traffic
FuzzExamples(spec_id, trials) ==
    LET spec_txids == SetToSeq(MatchSet(spec_id))
        examples == [k \in 1..Min(SpecSampleCap, Len(spec_txids)) |->
                        FuzzText(TrafficRow(spec_txids[k]))]
    IN Take(examples, Min(Len(examples), trials))

\* _fuzz_containment_test raises ZeroDivisionError: real examples, none tested
FuzzRaises(sub_id, spec_id, trials) ==
    MatchSet(spec_id) # {} /\ Len(FuzzExamples(spec_id, trials)) = 0

\* _fuzz_containment_test for trials >= 0; random_hits is the number of the
\* random strings that the sub rule's matcher accepted
FuzzContainmentTest(sub_id, spec_id, trials, random_hits) ==
    IF MatchSet(spec_id) = {}
    THEN Ratio(IF compiled[IndexOf(sub_id)] = NoneRe THEN 0 ELSE random_hits,
               Max(1, Min(trials, RandomTrialCap)))
    ELSE LET tested == FuzzExamples(spec_id, trials)
             sub_re == compiled[IndexOf(sub_id)]
             hits == Cardinality({k \in 1..Len(tested) :
                                    /\ sub_re # NoneRe
                                    /\ ~SearchRaises(sub_re, tested[k])
                                    /\ Search(sub_re, tested[k])})
         IN Ratio(hits, Len(tested))

\* a_contains_b that combines the two proportions by their smaller one
AContainsBMin(a, b, set_a_local, set_b_local, trials, random_hits) ==
    IF set_b_local = {} THEN <<FALSE, Ratio(0, 1), <<>> >>
    ELSE LET traffic_contained == Ratio(Cardinality(set_a_local \cap set_b_local),
                                        Cardinality(set_b_local))
             fuzz_contained == FuzzContainmentTest(a, b, trials, random_hits)
             combined == IF RGeq(traffic_contained, fuzz_contained)
                         THEN fuzz_contained ELSE traffic_contained
             evidence == Take(SetToSeq(set_a_local \cap set_b_local), EvidenceCap)
         IN <<RGeq(combined, ContainmentThreshold), combined, evidence>>
\* a_contains_b that takes an empty set_b_local to be contained
AContainsBVacuous(a, b, set_a_local, set_b_local, trials, random_hits) ==
    IF set_b_local = {} THEN <<TRUE, Ratio(1, 1), <<>> >>
    ELSE LET traffic_contained == Ratio(Cardinality(set_a_local \cap set_b_local),
                                        Cardinality(set_b_local))
             fuzz_contained == FuzzContainmentTest(a, b, trials, random_hits)
             combined == RMax(traffic_contained, fuzz_contained)
             evidence == Take(SetToSeq(set_a_local \cap set_b_local), EvidenceCap)
         IN <<RGeq(combined, ContainmentThreshold), combined, evidence>>
\* a_contains_b that runs the fuzzer also for an empty set_b_local
AContainsBUnguarded(a, b, set_a_local, set_b_local, trials, random_hits) ==
    LET traffic_contained == Ratio(Cardinality(set_a_local \cap set_b_local),
                                   Max(1, Cardinality(set_b_local)))
        fuzz_contained == FuzzContainmentTest(a, b, trials, random_hits)
        combined == RMax(traffic_contained, fuzz_contained)
        evidence == Take(SetToSeq(set_a_local \cap set_b_local), EvidenceCap)
    IN <<RGeq(combined, ContainmentThreshold), combined, evidence>>
\* a_contains_b of _detect_subsumption: <<ok, combined, evidence>>
AContainsB(a, b, set_a_local, set_b_local, trials, random_hits) ==
    IF set_b_local = {} THEN <<FALSE, Ratio(0, 1), <<>> >>
    ELSE LET traffic_contained == Ratio(Cardinality(set_a_local \cap set_b_local),
                                        Cardinality(set_b_local))
             fuzz_contained == FuzzContainmentTest(a, b, trials, random_hits)
             combined == RMax(traffic_contained, fuzz_contained)
             evidence == Take(SetToSeq(set_a_local \cap set_b_local), EvidenceCap)
         IN <<RGeq(combined, ContainmentThreshold), combined, evidence>>

\* _detect_subsumption: both directions
DetectSubsumption(rule_a, rule_b, set_a, set_b, trials, random_hits) ==
    LET ab == AContainsB(rule_a, rule_b, set_a, set_b, trials, random_hits)
        ba == AContainsB(rule_b, rule_a, set_b, set_a, trials, random_hits)
    IN (IF ab[1]
        THEN << Rel("SUB", None, None, rule_a, rule_b, ab[2], Len(ab[3]), ab[3], NoValue, NoValue) >>
        ELSE <<>>)
       \o
       (IF ba[1]
        THEN << Rel("SUB", None, None, rule_b, rule_a, ba[2], Len(ba[3]), ba[3], NoValue, NoValue) >>
        ELSE <<>>)

\* _detect_subsumption raises
SubsumptionRaises(rule_a, rule_b, set_a, set_b, trials) ==
    \/ set_b # {} /\ FuzzRaises(rule_a, rule_b, trials)
    \/ set_a # {} /\ FuzzRaises(rule_b, rule_a, trials)

\* analyze_rule_pair raises: no detector call is guarded by try/except
PairRaises(rule_a, rule_b, types, trials) ==
    "SUB" \in types /\ SubsumptionRaises(rule_a, rule_b, MatchSet(rule_a), MatchSet(rule_b), trials)

\* analyze_rule_pair in which the subsumption test is the branch of every type
\* name that is not SHD, RXD or COR
AnalyzeRulePairElseSub(rule_a, rule_b, types, order, trials, random_hits) ==
    LET set_a == MatchSet(rule_a)
        set_b == MatchSet(rule_b)
    IN (IF "SHD" \in types THEN DetectShadowing(rule_a, rule_b, set_a, set_b, order) ELSE <<>>)
       \o (IF "RXD" \in types THEN DetectRedundancy(rule_a, rule_b, set_a, set_b) ELSE <<>>)
       \o (IF "COR" \in types THEN DetectCorrelation(rule_a, rule_b, set_a, set_b) ELSE <<>>)
       \o (IF types \ {"SHD", "RXD", "COR"} # {}
           THEN DetectSubsumption(rule_a, rule_b, set_a, set_b, trials, random_hits)
           ELSE <<>>)

\* analyze_rule_pair: the relationships of one pair, in the order SHD, RXD, COR, SUB
AnalyzeRulePair(rule_a, rule_b, types, order, trials, random_hits) ==
    LET set_a == MatchSet(rule_a)
        set_b == MatchSet(rule_b)
    IN (IF "SHD" \in types THEN DetectShadowing(rule_a, rule_b, set_a, set_b, order) ELSE <<>>)
       \o (IF "RXD" \in types THEN DetectRedundancy(rule_a, rule_b, set_a, set_b) ELSE <<>>)
       \o (IF "COR" \in types THEN DetectCorrelation(rule_a, rule_b, set_a, set_b) ELSE <<>>)
       \o (IF "SUB" \in types
           THEN DetectSubsumption(rule_a, rule_b, set_a, set_b, trials, random_hits)
           ELSE <<>>)

\* the <<sub, spec>> calls of _fuzz_containment_test that a_contains_b makes for a pair
FuzzCalls(rule_a, rule_b) ==
    {c \in {<<rule_a, rule_b>>, <<rule_b, rule_a>>} : MatchSet(c[2]) # {}}

\* the numbers of random hits the fuzzer can report for the pair: random strings
\* are drawn only in a call whose spec rule has no matched transaction
RandomHitChoices(rule_a, rule_b, types, trials) ==
    IF "SUB" \in types /\ \E c \in FuzzCalls(rule_a, rule_b) : match_matrix[c[2]] = {}
    THEN 0..Min(trials, RandomTrialCap)
    ELSE {0}

-----------------------------------------------------------------------------
(* compile_results, generate_recommendations, the AI enrichment *)

OfType(rels, t) == SelectSeq(rels, LAMBDA r : r.relationship_type = t)

\* the keys of relationships_by_type, in the order setdefault created them
RECURSIVE TypeKeys(_, _)
TypeKeys(rels, seen) ==
    IF rels = <<>> THEN <<>>
    ELSE IF Head(rels).relationship_type \in seen THEN TypeKeys(Tail(rels), seen)
    ELSE <<Head(rels).relationship_type>>
         \o TypeKeys(Tail(rels), seen \cup {Head(rels).relationship_type})

\* generate_recommendations in which correlations are always recommended for review
GenerateRecommendationsAlwaysCor(rels) ==
    LET recs == (IF OfType(rels, "SHD") # <<>> THEN <<"Remove/Review Shadowed Rules">> ELSE <<>>)
             \o (IF OfType(rels, "RXD") # <<>> THEN <<"Merge/Consolidate Redundant Rules">> ELSE <<>>)
             \o (IF OfType(rels, "SUB") # <<>> THEN <<"Specialize or Keep Specific Rules">> ELSE <<>>)
             \o (IF OfType(rels, "COR") # <<>> THEN <<"Review Correlated Rules">> ELSE <<>>)
    IN IF recs = <<>> THEN <<"No obvious optimizations found">> ELSE recs

\* generate_recommendations
GenerateRecommendations(rels) ==
    LET recs == (IF OfType(rels, "SHD") # <<>> THEN <<"Remove/Review Shadowed Rules">> ELSE <<>>)
             \o (IF OfType(rels, "RXD") # <<>> THEN <<"Merge/Consolidate Redundant Rules">> ELSE <<>>)
             \o (IF OfType(rels, "SUB") # <<>> THEN <<"Specialize or Keep Specific Rules">> ELSE <<>>)
        recs2 == IF OfType(rels, "COR") # <<>> /\ recs = <<>>
                 THEN <<"Review Correlated Rules">> ELSE recs
    IN IF recs2 = <<>> THEN <<"No obvious optimizations found">> ELSE recs2

\* compile_results, with the ai_available flag analyze_all_relationships adds
CompileResults(rels, ai_available, ai_error) ==
    [total_rules |-> Len(rules_df),
     total_relationships |-> Len(rels),
     type_keys |-> TypeKeys(rels, {}),
     relationships |-> [t \in KnownTypes |-> OfType(rels, t)],
     shd_count |-> Len(OfType(rels, "SHD")),
     rxd_count |-> Len(OfType(rels, "RXD")),
     sub_count |-> Len(OfType(rels, "SUB")),
     cor_count |-> Len(OfType(rels, "COR")),
     recommendations |-> GenerateRecommendations(rels),
     ai_available |-> ai_available,
     ai_error |-> ai_error]

\* what the AI step makes of base_results: "unavailable" (no processor, or its
\* client failed to initialise), "enhanced" (enhance_analysis_with_ai succeeded;
\* it adds suggestions and keeps every relationship), "failed" (it raised, or
\* caught its own exception)
AiOutcomes == {"unavailable", "enhanced", "failed"}
AnalysisResult(rels, ai) ==
    CompileResults(rels, ai = "enhanced", ai = "failed")

\* the relationships of a result in the order analyze_rules stores them
RECURSIVE FlatByType(_, _)
FlatByType(result, keys) ==
    IF keys = <<>> THEN <<>>
    ELSE result.relationships[Head(keys)] \o FlatByType(result, Tail(keys))
StoredOrder(result) == FlatByType(result, result.type_keys)

\* the unique_together key of a RuleRelationship row (session is the one session)
RowKey(r) == <<r.relationship_type, r.rule_a, r.rule_b>>

\* RuleRelationship.objects.create raises IntegrityError for row k: rule_a or
\* rule_b is NULL, or an earlier row has the same key
CreateFails(flat, k) ==
    \/ flat[k].rule_a = None
    \/ flat[k].rule_b = None
    \/ \E m \in 1..(k - 1) : RowKey(flat[m]) = RowKey(flat[k])

\* the rows created before the first failing create, and whether one failed
FirstFailure(flat) ==
    LET bad == {k \in 1..Len(flat) : CreateFails(flat, k)}
    IN IF bad = {} THEN 0 ELSE CHOOSE k \in bad : \A m \in bad : k <= m
RowsStored(flat) ==
    IF FirstFailure(flat) = 0 THEN flat ELSE SubSeq(flat, 1, FirstFailure(flat) - 1)

-----------------------------------------------------------------------------
(* The inputs *)

\* an HTTP response of analyze_rules; data holds the results, or nothing
Response(status, data) == [status |-> status, data |-> data]
NoData == <<>>
NoResponse == Response(0, NoData)

PatternVals ==
    {[kind |-> "anchor", tok |-> "a"], [kind |-> "word", tok |-> "b"],
     [kind |-> "dead", tok |-> ""]}
ActionVals == {"Block", "pass"}
\* (analysis_types, sample_fuzz_trials) of a run
RunChoices == {<<{"SHD", "RXD"}, DefaultFuzzTrials>>, <<KnownTypes, DefaultFuzzTrials>>,
               <<KnownTypes, 0>>}
\* runs whose analysis_types hold a name that is no relationship type
UnknownTypeRuns == {<<{"SHD", "RXD", "XSS"}, DefaultFuzzTrials>>,
                    <<{"XSS"}, DefaultFuzzTrials>>}
\* runs that request every type but SHD
NoShadowRuns == {<<KnownTypes \ {"SHD"}, DefaultFuzzTrials>>}

\* the kinds of request of the traffic sample: one that only the pattern ^a
\* matches, one that only the pattern b matches (its matched_data is "a"), one
\* that both match, one that neither matches
RequestKinds ==
    << [request_uri |-> "a", user_agent |-> NaN, matched_data |-> NaN],
       [request_uri |-> "b", user_agent |-> NaN, matched_data |-> "a"],
       [request_uri |-> "a", user_agent |-> "b", matched_data |-> NaN],
       [request_uri |-> "c", user_agent |-> NaN, matched_data |-> NaN] >>

\* a rule row; the k-th row of a rule file has rule_id str(k)
RuleRow(k, p, a, ph, pr) ==
    [rule_id |-> ToString(k), pattern |-> p, action |-> a, phase |-> ph, priority |-> pr,
     flags |-> ""]
RuleRows(k, phases, priorities) ==
    {RuleRow(k, p, a, ph, pr) :
        p \in PatternVals, a \in ActionVals, ph \in phases, pr \in priorities}
\* one more rule with the pattern b, of phase 1 and a priority after the others
LastRules(k) ==
    {RuleRow(k, [kind |-> "word", tok |-> "b"], a, 1, MaxPriority + 1) : a \in ActionVals}

RECURSIVE RuleSeqs(_, _, _)
RuleSeqs(n, phases, priorities) ==
    IF n = 0 THEN {<<>>}
    ELSE {Append(rs, r) : rs \in RuleSeqs(n - 1, phases, priorities),
                          r \in RuleRows(n, phases, priorities)}
\* rule files of MaxRules rules whose phase and priority vary, and rule files
\* of one rule more whose rules all have phase 1 and priority 1
RuleSets ==
    RuleSeqs(MaxRules, 0..MaxPhase, 0..MaxPriority) \cup
    {Append(rs, r) : rs \in RuleSeqs(MaxRules, {1}, {1}), r \in LastRules(MaxRules + 1)}

\* a traffic sample with counts[k] requests of the k-th kind, transaction ids 1, 2, ..
RECURSIVE TrafficOf(_, _)
TrafficOf(counts, k) ==
    IF k > Len(counts) THEN <<>>
    ELSE [n \in 1..counts[k] |-> RequestKinds[k]] \o TrafficOf(counts, k + 1)
Traffic(counts) ==
    LET rows == TrafficOf(counts, 1)
    IN [n \in 1..Len(rows) |->
          [transaction_id |-> n, request_uri |-> rows[n].request_uri,
           user_agent |-> rows[n].user_agent, matched_data |-> rows[n].matched_data]]

\* small traffic samples: up to MaxPerKind requests of each of the first two kinds
SmallCounts == {<<c[1], c[2], 0, 0>> : c \in [1..2 -> 0..MaxPerKind]}

\* larger traffic samples, in which ^a matches CorOnlyA + CorBoth requests and b
\* matches CorOnlyB + CorBoth of them, with CorNeither requests (one less, one
\* more) that neither matches
CorCounts == {<<CorOnlyA, CorOnlyB, CorBoth, n>> : n \in (CorNeither - 1)..(CorNeither + 1)}
\* traffic samples around the thresholds: b matches ThrOnlyB requests more than
\* the ThrBoth (one less, one more) requests that ^a matches; and one in which
\* ^a and b match NearBoth requests together and NearOnly requests each alone
ThresholdCounts ==
    {<<0, ThrOnlyB, n, 0>> : n \in (ThrBoth - 1)..(ThrBoth + 1)}
      \cup {<<NearOnly, NearOnly, NearBoth, 0>>}
\* a traffic sample of ManySame requests that b matches, and no other
ManyCounts == {<<0, ManySame, 0, 0>>}
\* the two rules ^a and b, of phase 1 and priority 1
CorRules ==
    {<<RuleRow(1, [kind |-> "anchor", tok |-> "a"], a1, 1, 1),
       RuleRow(2, [kind |-> "word", tok |-> "b"], a2, 1, 1)>> :
        a1 \in ActionVals, a2 \in ActionVals}

\* rule files whose first rule has a matcher that raises on some texts
FragileRules ==
    {<<RuleRow(1, [kind |-> "fragile", tok |-> "a"], a1, 1, 1), RuleRow(2, p, "Block", 1, 1)>> :
        a1 \in ActionVals, p \in PatternVals}
\* traffic samples of up to MaxPerKind requests of each of the first three kinds
FragileCounts == {<<c[1], c[2], c[3], 0>> : c \in [1..3 -> 0..MaxPerKind]}
\* the same, and the same followed by one more rule b
CorRuleSets ==
    CorRules \cup {Append(rs, r) : rs \in CorRules, r \in LastRules(MaxRules + 1)}

\* rule files in which phase, priority or flags may be missing: the first rule
\* has the pattern B and any of the three values given or missing, the second
\* is the rule b of phase 1 and priority 1 without flags
OptionalRules ==
    {<<[RuleRow(1, [kind |-> "word", tok |-> "B"], "Block", ph, pr) EXCEPT !.flags = f],
       [RuleRow(2, [kind |-> "word", tok |-> "b"], "Block", 1, 1) EXCEPT !.flags = NaN]>> :
        ph \in {NaNNum, 1}, pr \in {NaNNum, 1}, f \in {NaN, "I"}}
\* the optional columns a rule file may have
OptionalColumns == {"phase", "priority", "flags"}

\* lines 43-46: an optional column the rule file lacks is added with its default
WithDefaults(rules, columns) ==
    [k \in 1..Len(rules) |->
        [rules[k] EXCEPT
            !.phase = IF "phase" \in columns THEN @ ELSE DefaultPhase,
            !.priority = IF "priority" \in columns THEN @ ELSE DefaultPriority,
            !.flags = IF "flags" \in columns THEN @ ELSE ""]]

\* the analyzer after __init__
Constructed(rules, traffic, types, trials) ==
    /\ rules_df = rules
    /\ traffic_df = traffic
    /\ sample_fuzz_trials = trials
    /\ compiled = [k \in 1..Len(rules) |-> CompileRule(rules[k])]
    /\ match_matrix = BuildMatchMatrix(compiled)
    /\ relationships = <<>>
    /\ shadowed_rules_set = {}
    /\ analysis_types = types
    /\ rule_ids = <<>>
    /\ i = 0
    /\ j = 0
    /\ pc = "ready"
    /\ returned = <<>>
    /\ db_rows = <<>>
    /\ response = NoResponse
    /\ analyzed = <<>>

Init ==
    \/ \E rules \in RuleSets, counts \in SmallCounts, run \in RunChoices :
        Constructed(rules, Traffic(counts), run[1], run[2])
    \/ \E rules \in CorRuleSets, counts \in CorCounts, run \in RunChoices :
        Constructed(rules, Traffic(counts), run[1], run[2])
    \/ \E rules \in CorRules, counts \in ThresholdCounts, run \in RunChoices :
        Constructed(rules, Traffic(counts), run[1], run[2])
    \/ \E rules \in RuleSeqs(MaxRules, {1}, {1}), counts \in ManyCounts,
          run \in RunChoices :
        Constructed(rules, Traffic(counts), run[1], run[2])
    \/ \E rules \in RuleSeqs(MaxRules, {1}, {1}), counts \in SmallCounts,
          run \in UnknownTypeRuns :
        Constructed(rules, Traffic(counts), run[1], run[2])
    \/ \E rules \in {rs \in RuleSets : Len(rs) > MaxRules}, counts \in SmallCounts,
          run \in NoShadowRuns :
        Constructed(rules, Traffic(counts), run[1], run[2])
    \/ \E rules \in FragileRules, counts \in FragileCounts, run \in RunChoices :
        Constructed(rules, Traffic(counts), run[1], run[2])
    \/ \E rules \in OptionalRules, columns \in SUBSET OptionalColumns,
          counts \in SmallCounts, run \in RunChoices :
        Constructed(WithDefaults(rules, columns), Traffic(counts), run[1], run[2])

-----------------------------------------------------------------------------
(* analyze_all_relationships *)

\* the same with an inner loop over all of rule_ids instead of rule_ids[i+1:]
NextPosAllInner(a, b) == IF b < Len(rule_ids) THEN <<a, b + 1>> ELSE <<a + 1, 1>>
\* the (i, j) the loops reach after position (a, b)
NextPos(a, b) == IF b < Len(rule_ids) THEN <<a, b + 1>> ELSE <<a + 1, a + 2>>
LoopDone == i >= Len(rule_ids)

\* sorted() calls _rule_order_key on every rule
SortRaises == \E k \in 1..Len(rules_df) : OrderKeyRaises(rules_df[k])

\* lines 130-134: sort the rules, reset the shadowed set; self.relationships is kept
BeginAnalysis ==
    /\ pc \in {"ready", "returned"}
    /\ Len(returned) < MaxCalls
    /\ ~SortRaises
    /\ rule_ids' = [p \in 1..Len(rules_df) |-> OrderedRules[p].rule_id]
    /\ shadowed_rules_set' = {}
    /\ i' = 1
    /\ j' = 2
    /\ analyzed' = <<>>
    /\ pc' = "loop"
    /\ UNCHANGED <<rules_df, traffic_df, sample_fuzz_trials, analysis_types, compiled,
                   match_matrix, relationships, returned, db_rows, response>>

\* line 130: _rule_order_key raises, the exception leaves analyze_all_relationships
BeginAnalysisRaises ==
    /\ pc \in {"ready", "returned"}
    /\ Len(returned) < MaxCalls
    /\ SortRaises
    /\ pc' = "raised"
    /\ UNCHANGED <<rules_df, traffic_df, sample_fuzz_trials, analysis_types, compiled,
                   match_matrix, relationships, shadowed_rules_set, rule_ids, i, j,
                   returned, db_rows, response, analyzed>>

\* lines 137-138: rule_a is shadowed, the whole inner loop is skipped
SkipShadowedA ==
    /\ pc = "loop" /\ ~LoopDone
    /\ rule_ids[i] \in shadowed_rules_set
    /\ i' = i + 1
    /\ j' = i + 2
    /\ UNCHANGED <<rules_df, traffic_df, sample_fuzz_trials, analysis_types, compiled,
                   match_matrix, relationships, shadowed_rules_set, rule_ids, pc,
                   returned, db_rows, response, analyzed>>

\* lines 141-142: rule_b is shadowed, the pair is skipped
SkipShadowedB ==
    /\ pc = "loop" /\ ~LoopDone
    /\ rule_ids[i] \notin shadowed_rules_set
    /\ rule_ids[j] \in shadowed_rules_set
    /\ i' = NextPos(i, j)[1]
    /\ j' = NextPos(i, j)[2]
    /\ UNCHANGED <<rules_df, traffic_df, sample_fuzz_trials, analysis_types, compiled,
                   match_matrix, relationships, shadowed_rules_set, rule_ids, pc,
                   returned, db_rows, response, analyzed>>

\* the rule_b of the relationships of rels, whatever their type
NewlyShadowedAnyType(rels) ==
    {rels[k].rule_b : k \in {m \in 1..Len(rels) : rels[m].rule_b # None}}
\* the rule_b of the SHD relationships of rels (lines 148-149)
NewlyShadowed(rels) ==
    {rels[k].rule_b : k \in {m \in 1..Len(rels) :
        rels[m].relationship_type = "SHD" /\ rels[m].rule_b # None}}

\* lines 144-149: analyze the pair, record its relationships
AnalyzePair ==
    /\ pc = "loop" /\ ~LoopDone
    /\ rule_ids[i] \notin shadowed_rules_set
    /\ rule_ids[j] \notin shadowed_rules_set
    /\ ~PairRaises(rule_ids[i], rule_ids[j], analysis_types, sample_fuzz_trials)
    /\ \E random_hits \in RandomHitChoices(rule_ids[i], rule_ids[j], analysis_types,
                                           sample_fuzz_trials) :
        LET rels == AnalyzeRulePair(rule_ids[i], rule_ids[j], analysis_types, rule_ids,
                                    sample_fuzz_trials, random_hits)
        IN /\ relationships' = relationships \o rels
           /\ shadowed_rules_set' = shadowed_rules_set \cup NewlyShadowed(rels)
    /\ i' = NextPos(i, j)[1]
    /\ j' = NextPos(i, j)[2]
    /\ analyzed' = Append(analyzed, <<rule_ids[i], rule_ids[j]>>)
    /\ UNCHANGED <<rules_df, traffic_df, sample_fuzz_trials, analysis_types, compiled,
                   match_matrix, rule_ids, pc, returned, db_rows, response>>

\* a detector raises in analyze_rule_pair: the exception leaves
\* analyze_all_relationships, which returns nothing
AnalyzePairRaises ==
    /\ pc = "loop" /\ ~LoopDone
    /\ rule_ids[i] \notin shadowed_rules_set
    /\ rule_ids[j] \notin shadowed_rules_set
    /\ PairRaises(rule_ids[i], rule_ids[j], analysis_types, sample_fuzz_trials)
    /\ analyzed' = Append(analyzed, <<rule_ids[i], rule_ids[j]>>)
    /\ pc' = "raised"
    /\ UNCHANGED <<rules_df, traffic_df, sample_fuzz_trials, analysis_types, compiled,
                   match_matrix, relationships, shadowed_rules_set, rule_ids, i, j,
                   returned, db_rows, response>>

\* lines 151-165: compile the results, enrich them, return
ReturnResults ==
    /\ pc = "loop" /\ LoopDone
    /\ \E ai \in AiOutcomes :
        returned' = Append(returned, AnalysisResult(relationships, ai))
    /\ pc' = "returned"
    /\ UNCHANGED <<rules_df, traffic_df, sample_fuzz_trials, analysis_types, compiled,
                   match_matrix, relationships, shadowed_rules_set, rule_ids, i, j,
                   db_rows, response, analyzed>>

-----------------------------------------------------------------------------
(* analyze_rules (views.py): one analysis, then persistence and the response *)


\* views.py 95-124: store the session and the relationships, answer 200 with the
\* results; any exception is answered 500 without them (views.py 126-129)
StoreAndRespond ==
    /\ pc = "returned" /\ Len(returned) = 1
    /\ \E db_up \in BOOLEAN :
        LET flat == StoredOrder(returned[1])
        IN IF ~db_up
           THEN db_rows' = <<>> /\ response' = Response(500, NoData)
           ELSE /\ db_rows' = RowsStored(flat)
                /\ response' = IF FirstFailure(flat) = 0
                               THEN Response(200, <<returned[1]>>)
                               ELSE Response(500, NoData)
    /\ pc' = "responded"
    /\ UNCHANGED <<rules_df, traffic_df, sample_fuzz_trials, analysis_types, compiled,
                   match_matrix, relationships, shadowed_rules_set, rule_ids, i, j,
                   returned, analyzed>>

\* views.py 126-129: the analysis raised
RespondError ==
    /\ pc = "raised" /\ Len(returned) = 0
    /\ response' = Response(500, NoData)
    /\ pc' = "responded"
    /\ UNCHANGED <<rules_df, traffic_df, sample_fuzz_trials, analysis_types, compiled,
                   match_matrix, relationships, shadowed_rules_set, rule_ids, i, j,
                   returned, db_rows, analyzed>>

Next ==
    \/ BeginAnalysis
    \/ BeginAnalysisRaises
    \/ SkipShadowedA
    \/ SkipShadowedB
    \/ AnalyzePair
    \/ AnalyzePairRaises
    \/ ReturnResults
    \/ StoreAndRespond
    \/ RespondError

Spec == Init /\ [][Next]_vars

-----------------------------------------------------------------------------
(* What the properties below speak of *)

\* the (phase, priority) of a rule row as the rule file gives them
RawKey(row) == <<row.phase, row.priority>>
LexBefore(a, b) == KeyLess(RawKey(RowOf(a)), RawKey(RowOf(b)))

\* the two rules a relationship names
RelFirst(r) == IF r.relationship_type = "SUB" THEN r.subsuming_rule ELSE r.rule_a
RelSecond(r) == IF r.relationship_type = "SUB" THEN r.subsumed_rule ELSE r.rule_b

\* the relationships the analyzer holds, and those of a returned result
Reported == Range(relationships)
RelsOf(result) == UNION {Range(result.relationships[t]) : t \in KnownTypes}

\* the part of a result that the relationships determine
ResultCore(result) ==
    <<result.relationships, result.total_relationships, result.shd_count,
      result.rxd_count, result.sub_count, result.cor_count>>

One == Ratio(1, 1)
HasFullSHD(rels, a, b) ==
    \E r \in rels : /\ r.relationship_type = "SHD"
                    /\ r.rule_a = a /\ r.rule_b = b
                    /\ REq(r.confidence, One)
HasFullRXD(rels, a, b) ==
    \E r \in rels : /\ r.relationship_type = "RXD"
                    /\ {r.rule_a, r.rule_b} = {a, b}
                    /\ REq(r.confidence, One)
                    /\ REq(r.jaccard, One)

\* rule r was reported as shadowed by a rule that runs before rule a
ShadowedEarlier(rels, r, a) ==
    \E s \in rels : /\ s.relationship_type = "SHD"
                    /\ s.rule_b = r
                    /\ PosIn(rule_ids, s.rule_a) < PosIn(rule_ids, a)

\* two rules with one non-empty match set
SameMatches(a, b) == a # b /\ MatchSet(a) = MatchSet(b) /\ MatchSet(a) # {}

-----------------------------------------------------------------------------
(* C1 *)

\* C1: no SHD relationship is reported with rule_a = b and rule_b = a when a's
\* (phase, priority) is lexicographically smaller than b's
C1_DirectionInvariant ==
    \A r \in Reported :
        r.relationship_type = "SHD" => ~LexBefore(r.rule_b, r.rule_a)

\* an SHD relationship whose rule_a has the smaller (phase, priority)
C1_ShadowReported ==
    \E r \in Reported : r.relationship_type = "SHD" /\ LexBefore(r.rule_a, r.rule_b)

-----------------------------------------------------------------------------
(* C2 *)

\* C2: no relationship of any type names two rules whose match sets are disjoint
C2_DisjointUnrelated ==
    \A r \in Reported : MatchSet(RelFirst(r)) \cap MatchSet(RelSecond(r)) # {}

\* an analysis has returned; it evaluated two rules with disjoint, non-empty
\* match sets and reported nothing for them
C2_DisjointEvaluated ==
    /\ pc = "returned"
    /\ \E a \in RuleIdSet, b \in RuleIdSet :
        /\ MatchSet(a) # {} /\ MatchSet(b) # {}
        /\ MatchSet(a) \cap MatchSet(b) = {}
        /\ {a, b} \cap shadowed_rules_set = {}
        /\ \A r \in Reported : {RelFirst(r), RelSecond(r)} # {a, b}

-----------------------------------------------------------------------------
(* C3 *)

\* C3: a second call of analyze_all_relationships on the same analyzer returns
\* the relationships and the counts of the first call
C3_SecondCallSame ==
    Len(returned) = 2 => ResultCore(returned[2]) = ResultCore(returned[1])

\* a second call has returned, after a first one that reported a relationship
C3_SecondCall == Len(returned) = 2 /\ returned[1].total_relationships > 0

-----------------------------------------------------------------------------
(* C4 *)

-----------------------------------------------------------------------------
(* C5 *)

\* C5: the subsumed rule of a SUB relationship has a non-empty match set
C5_SubsumedNonEmpty ==
    \A r \in Reported : r.relationship_type = "SUB" => MatchSet(r.subsumed_rule) # {}

\* an analysis with SUB requested has returned; it evaluated a rule without
\* matches against a rule with matches, and it reported a SUB relationship
C5_EmptyRuleTested ==
    /\ pc = "returned" /\ "SUB" \in analysis_types
    /\ \E e \in RuleIdSet, o \in RuleIdSet :
        /\ MatchSet(e) = {} /\ MatchSet(o) # {}
        /\ {e, o} \cap shadowed_rules_set = {}
    /\ \E r \in Reported : r.relationship_type = "SUB"

-----------------------------------------------------------------------------
(* C6 *)

\* the condition on the counts: both match sets non-empty, at least three
\* common transactions, and |A n B| * T > 2 * |A| * |B|
ExactCor(a, b) ==
    /\ MatchSet(a) # {} /\ MatchSet(b) # {}
    /\ Cardinality(MatchSet(a) \cap MatchSet(b)) >= MinCorSupport
    /\ Cardinality(MatchSet(a) \cap MatchSet(b)) * CorTotal
         > LiftThreshold * Cardinality(MatchSet(a)) * Cardinality(MatchSet(b))
HasCOR(rels, a, b) ==
    \E r \in rels : r.relationship_type = "COR" /\ r.rule_a = a /\ r.rule_b = b

\* C6: once an analysis with COR requested has returned, a pair it evaluated
\* has a COR relationship iff both match sets are non-empty, |A n B| >= 3 and
\* |A n B| * T > 2 * |A| * |B|, with T = max(1, number of traffic rows)
C6_CorIffExact ==
    (pc = "returned" /\ Len(returned) = 1 /\ "COR" \in analysis_types) =>
        \A a \in RuleIdSet, b \in RuleIdSet :
            (PosIn(rule_ids, a) < PosIn(rule_ids, b) /\ {a, b} \cap shadowed_rules_set = {})
            => (HasCOR(Reported, a, b) <=> ExactCor(a, b))

\* a COR relationship was reported for a pair whose counts satisfy the condition
C6_CorReported ==
    /\ pc = "returned" /\ Len(returned) = 1
    /\ \E a \in RuleIdSet, b \in RuleIdSet : HasCOR(Reported, a, b) /\ ExactCor(a, b)

-----------------------------------------------------------------------------
(* C7 *)

\* a relationship with rule_a and rule_b exchanged
SwapAB(r) == [r EXCEPT !.rule_a = r.rule_b, !.rule_b = r.rule_a]
SwapAll(rels) == [k \in 1..Len(rels) |-> SwapAB(rels[k])]

\* the redundancy and the correlation detector give (a, b) what they give (b, a)
SymmetricFor(a, b, set_a, set_b) ==
    /\ CoOccurrenceRate(set_a, set_b) = CoOccurrenceRate(set_b, set_a)
    /\ Jaccard(set_a, set_b) = Jaccard(set_b, set_a)
    /\ CorExpected(set_a, set_b) = CorExpected(set_b, set_a)
    /\ CorExpected(set_a, set_b) # FZero =>
         CorLift(Cardinality(set_a \cap set_b), CorExpected(set_a, set_b))
           = CorLift(Cardinality(set_b \cap set_a), CorExpected(set_b, set_a))
    /\ DetectRedundancy(a, b, set_a, set_b) = SwapAll(DetectRedundancy(b, a, set_b, set_a))
    /\ DetectCorrelation(a, b, set_a, set_b) = SwapAll(DetectCorrelation(b, a, set_b, set_a))

\* C7: for the pair the analysis is about to evaluate, the redundancy and the
\* correlation detector compute the same co_occurrence_rate, jaccard and lift
\* and take the same decision for (A, B) as for (B, A)
C7_Symmetric ==
    (pc = "loop" /\ ~LoopDone) =>
        SymmetricFor(rule_ids[i], rule_ids[j], MatchSet(rule_ids[i]), MatchSet(rule_ids[j]))

\* the pair about to be evaluated has match sets of different sizes that
\* overlap, and the correlation detector reports it
C7_UnequalPair ==
    /\ pc = "loop" /\ ~LoopDone
    /\ Cardinality(MatchSet(rule_ids[i])) # Cardinality(MatchSet(rule_ids[j]))
    /\ MatchSet(rule_ids[i]) \cap MatchSet(rule_ids[j]) # {}
    /\ DetectCorrelation(rule_ids[i], rule_ids[j],
                         MatchSet(rule_ids[i]), MatchSet(rule_ids[j])) # <<>>

-----------------------------------------------------------------------------
(* C8 *)

Uncompilable(id) == compiled[IndexOf(id)] = NoneRe
Participants(r) == {r.rule_a, r.rule_b, r.subsuming_rule, r.subsumed_rule}

-----------------------------------------------------------------------------
(* C9 *)

\* a detector raises for the pair the analysis is about to evaluate
CurrentPairRaises ==
    /\ pc = "loop" /\ ~LoopDone
    /\ {rule_ids[i], rule_ids[j]} \cap shadowed_rules_set = {}
    /\ PairRaises(rule_ids[i], rule_ids[j], analysis_types, sample_fuzz_trials)

\* C9: when the subsumption test of a pair raises, the analysis goes on: the
\* relationships of the pair's other types are recorded and the loop advances
C9_SkipOnlyFailing ==
    [][CurrentPairRaises =>
        /\ pc' = "loop"
        /\ relationships' = relationships \o
             AnalyzeRulePair(rule_ids[i], rule_ids[j], analysis_types \ {"SUB"},
                             rule_ids, sample_fuzz_trials, 0)
        /\ <<i', j'>> = NextPos(i, j)]_vars

\* the analysis has ended with the exception of the subsumption test of a pair
\* whose other types had a relationship to report
C9_Raised ==
    /\ pc = "raised" /\ analyzed # <<>>
    /\ AnalyzeRulePair(rule_ids[i], rule_ids[j], analysis_types \ {"SUB"},
                       rule_ids, sample_fuzz_trials, 0) # <<>>

-----------------------------------------------------------------------------
(* C10 *)

\* C10: what analyze_all_relationships returns holds every relationship the
\* analyzer computed, and so does the response of analyze_rules
C10_NothingDropped ==
    /\ pc = "returned" => Reported \subseteq RelsOf(returned[Len(returned)])
    /\ (pc = "responded" /\ Len(returned) = 1) =>
         \A r \in Reported : response.data # NoData /\ r \in RelsOf(response.data[1])

\* analyze_rules has answered after an analysis that reported relationships and
\* whose AI enrichment failed
C10_Responded ==
    /\ pc = "responded" /\ Len(returned) = 1
    /\ returned[1].ai_error /\ returned[1].total_relationships > 0
    /\ response.status = 200

-----------------------------------------------------------------------------
(* Optional rule columns *)

\* a rule row in which a missing phase, priority or flags has its default
Defaulted(row) ==
    [row EXCEPT !.phase = IF @ = NaNNum THEN DefaultPhase ELSE @,
                !.priority = IF @ = NaNNum THEN DefaultPriority ELSE @,
                !.flags = IF @ = NaN THEN "" ELSE @]
\* some rule of the rule file misses a value of an optional column
SomeValueMissing ==
    \E k \in 1..Len(rules_df) :
        rules_df[k].phase = NaNNum \/ rules_df[k].priority = NaNNum \/ rules_df[k].flags = NaN
\* the order rule_ids is the execution order of the rules with their defaults
OrderedWithDefaults(ids) ==
    /\ Len(ids) = Len(rules_df)
    /\ {ids[p] : p \in 1..Len(ids)} = RuleIdSet
    /\ \A p, q \in 1..Len(ids) :
        p < q => LET kp == RuleOrderKey(Defaulted(RowOf(ids[p])))
                     kq == RuleOrderKey(Defaulted(RowOf(ids[q])))
                 IN KeyLess(kp, kq) \/ (kp = kq /\ IndexOf(ids[p]) < IndexOf(ids[q]))

\* C11: the first analysis of an analyzer never fails because a rule lacks
\* a phase, a priority or flags: it starts its pair loop with the rules in the
\* order of their (phase, priority), a missing phase counted as 2 and a missing
\* priority as 1000, over the patterns compiled as with empty flags where the
\* flags are missing.
C11_MissingTolerated ==
    [][(pc = "ready" /\ SomeValueMissing) =>
          /\ pc' = "loop"
          /\ OrderedWithDefaults(rule_ids')
          /\ compiled = [k \in 1..Len(rules_df) |-> CompileRule(Defaulted(rules_df[k]))]
      ]_vars
\* the sort of an analysis has raised on a rule without phase or priority
C11_SortRaised == pc = "raised" /\ SortRaises /\ response = NoResponse

-----------------------------------------------------------------------------
(* Requested relationship types *)

\* C12: every reported relationship has one of the four types SHD, RXD, COR,
\* SUB and a type that was requested; a requested name that is none of the
\* four raises nothing and changes nothing: the pair under analysis yields,
\* and raises, what it does when only the known names are requested.
C12_OnlyRequestedKnown ==
    /\ \A r \in Reported : r.relationship_type \in analysis_types \cap KnownTypes
    /\ (pc = "loop" /\ ~LoopDone) =>
        /\ PairRaises(rule_ids[i], rule_ids[j], analysis_types, sample_fuzz_trials)
             = PairRaises(rule_ids[i], rule_ids[j], analysis_types \cap KnownTypes,
                          sample_fuzz_trials)
        /\ \A random_hits \in RandomHitChoices(rule_ids[i], rule_ids[j], analysis_types,
                                               sample_fuzz_trials) :
             AnalyzeRulePair(rule_ids[i], rule_ids[j], analysis_types, rule_ids,
                             sample_fuzz_trials, random_hits)
               = AnalyzeRulePair(rule_ids[i], rule_ids[j], analysis_types \cap KnownTypes,
                                 rule_ids, sample_fuzz_trials, random_hits)
\* an analysis that was asked for an unknown type name has returned relationships
C12_UnknownRequested ==
    /\ pc = "returned"
    /\ analysis_types \ KnownTypes # {}
    /\ \E r \in Reported : r.relationship_type = "RXD"

-----------------------------------------------------------------------------
(* Confidence *)

\* x >= 0.5 for a double x
FAtLeastHalf(x) ==
    /\ x.mant # <<>>
    /\ \/ x.exp >= 0 - 1
       \/ BCmp(x.mant, BShl(BN(1), 0 - x.exp - 1)) >= 0
\* a confidence lies in [0, 1]: a quotient of two counts does when its numerator
\* is at most its denominator; min(log2(lift) / 5.0 + 0.2, 1.0) is at most 1.0
\* and, log2 being increasing with log2(0.5) = -1, at least 0.0 when lift >= 0.5
InUnitInterval(r) ==
    IF r.relationship_type = "COR"
    THEN r.confidence[1] = "log2"
         /\ FAtLeastHalf([mant |-> r.confidence[2], exp |-> r.confidence[3]])
    ELSE Len(r.confidence) = 2
         /\ r.confidence[2] > 0
         /\ 0 <= r.confidence[1] /\ r.confidence[1] <= r.confidence[2]

\* C13: the confidence of every reported relationship, of whatever type, lies
\* between 0 and 1 inclusive.
C13_ConfidenceInUnit == \A r \in Reported : InUnitInterval(r)
\* a correlation has been reported, and relationships of two more types
C13_SeveralTypesReported ==
    /\ \E r \in Reported : r.relationship_type = "COR"
    /\ Cardinality({r.relationship_type : r \in Reported}) >= 3

-----------------------------------------------------------------------------
(* Evidence *)

\* tx is matched by a blocking rule that executes before the rule b
BlockedBefore(tx, b) ==
    \E p \in 1..(PosIn(rule_ids, b) - 1) :
        /\ tx \in MatchSet(rule_ids[p])
        /\ Lower(RowOf(rule_ids[p]).action) \in {"block", "blocked", "deny"}

\* C14: every SHD and every SUB relationship carries at most 10 evidence
\* transaction ids; each evidence id of an SHD relationship is in rule_b's
\* match set and is matched by a blocking rule that precedes rule_b; each
\* evidence id of a SUB relationship is in the match sets of both its rules.
C14_EvidenceSound ==
    \A r \in Reported :
        /\ r.relationship_type = "SHD" =>
            /\ Len(r.evidence_tx_ids) <= 10
            /\ \A tx \in Range(r.evidence_tx_ids) :
                tx \in MatchSet(r.rule_b) /\ BlockedBefore(tx, r.rule_b)
        /\ r.relationship_type = "SUB" =>
            /\ Len(r.evidence_tx_ids) <= 10
            /\ Range(r.evidence_tx_ids)
                 \subseteq MatchSet(r.subsuming_rule) \cap MatchSet(r.subsumed_rule)
\* an SHD and a SUB relationship with more evidence than the ids they carry
C14_EvidenceCut ==
    /\ \E r \in Reported :
        /\ r.relationship_type = "SHD"
        /\ Len(r.evidence_tx_ids) = 10 /\ r.evidence_count > 10
    /\ \E r \in Reported :
        /\ r.relationship_type = "SUB"
        /\ Len(r.evidence_tx_ids) = 10
        /\ Cardinality(MatchSet(r.subsuming_rule) \cap MatchSet(r.subsumed_rule)) > 10

-----------------------------------------------------------------------------
(* Recommendations *)

\* the recommendations of a result are those its relationships call for
RecommendationsFit(result) ==
    LET recs == Range(result.recommendations)
        found(t) == result.relationships[t] # <<>>
    IN /\ result.recommendations # <<>>
       /\ "Remove/Review Shadowed Rules" \in recs <=> found("SHD")
       /\ "Merge/Consolidate Redundant Rules" \in recs <=> found("RXD")
       /\ "Specialize or Keep Specific Rules" \in recs <=> found("SUB")
       /\ "Review Correlated Rules" \in recs
            <=> (found("COR") /\ ~found("SHD") /\ ~found("RXD") /\ ~found("SUB"))
       /\ "No obvious optimizations found" \in recs <=> result.total_relationships = 0
       /\ result.total_relationships = 0
            => result.recommendations = <<"No obvious optimizations found">>

\* C15: the recommendation list of a result is never empty; it holds the
\* shadowed, redundant and subsumption recommendation exactly when the result
\* has SHD, RXD and SUB relationships respectively, the correlated one exactly
\* when it has COR relationships and none of the three other types, and is
\* the single 'No obvious optimizations found' exactly when it has none at all.
C15_RecommendationsFit == \A k \in 1..Len(returned) : RecommendationsFit(returned[k])
\* a result with correlated and with shadowed rules
C15_CorrelatedAndShadowed ==
    \E k \in 1..Len(returned) : returned[k].cor_count > 0 /\ returned[k].shd_count > 0

-----------------------------------------------------------------------------
(* The pair loop *)

\* the pairs passed to analyze_rule_pair in the current analysis
AnalyzedPairs == Range(analyzed)
\* rule a comes before rule b in the execution order
Precedes(a, b) == PosIn(rule_ids, a) < PosIn(rule_ids, b)

\* C16: when an analysis has returned, a rule b that was recorded as the rule_b
\* of an SHD relationship has never been the rule_a of an analyzed pair, and
\* has been analyzed as rule_b with every rule that precedes it in execution
\* order and was not skipped itself as shadowed.
C16_ShadowedStillInner ==
    pc = "returned" =>
        \A b \in shadowed_rules_set :
            /\ \A x \in Range(rule_ids) : <<b, x>> \notin AnalyzedPairs
            /\ \A a \in Range(rule_ids) \ shadowed_rules_set :
                Precedes(a, b) => <<a, b>> \in AnalyzedPairs
\* the inner loop stands at a shadowed rule_b, with a rule_a that is not shadowed
C16_InnerShadowed ==
    /\ pc = "loop" /\ ~LoopDone
    /\ rule_ids[i] \notin shadowed_rules_set
    /\ rule_ids[j] \in shadowed_rules_set

\* the pairs of distinct rules, the rule earlier in execution order first
OrderedPairs == {<<a, b>> \in Range(rule_ids) \X Range(rule_ids) : Precedes(a, b)}
\* an SHD relationship found with a rule_a before a names b as rule_b
ShadowedBefore(a, b) ==
    \E r \in Reported :
        r.relationship_type = "SHD" /\ r.rule_b = b /\ Precedes(r.rule_a, a)

-----------------------------------------------------------------------------
(* Shadowing *)

\* the analysis was left by an exception (answered with an error or not yet)
AnalysisRaised == pc = "raised" \/ (pc = "responded" /\ returned = <<>>)
\* the pairs whose analyze_rule_pair call has returned
CompletedPairs ==
    {analyzed[p] : p \in {q \in 1..Len(analyzed) : ~(AnalysisRaised /\ q = Len(analyzed))}}
\* the transactions of rule b's match set that a blocking rule before b matches
PreBlocked(b) == {tx \in MatchSet(b) : BlockedBefore(tx, b)}
\* the SHD relationships reported for the pair (a, b)
ShadowsOf(a, b) ==
    {r \in Reported : r.relationship_type = "SHD" /\ r.rule_a = a /\ r.rule_b = b}

\* C18: with SHD requested, a pair (a, b) whose analysis has returned has an
\* SHD(a -> b) relationship iff b's match set is non-empty and more than 0.75
\* of it is pre-blocked, a transaction being pre-blocked when some rule before
\* b in execution order, a or another, matches it and has the action block,
\* blocked or deny in any letter case; the confidence is that proportion.
C18_ShadowIffBlocked ==
    "SHD" \in analysis_types =>
        \A ab \in CompletedPairs :
            LET set_b == MatchSet(ab[2])
                blocked_count == Cardinality(PreBlocked(ab[2]))
            IN /\ ShadowsOf(ab[1], ab[2]) # {}
                    <=> (set_b # {} /\ 4 * blocked_count > 3 * Cardinality(set_b))
               /\ \A r \in ShadowsOf(ab[1], ab[2]) :
                    r.confidence = <<blocked_count, Cardinality(set_b)>>
\* an SHD relationship is reported for a pair of which a part only is pre-blocked
C18_PartlyBlocked ==
    \E ab \in CompletedPairs :
        /\ ShadowsOf(ab[1], ab[2]) # {}
        /\ PreBlocked(ab[2]) # MatchSet(ab[2])

\* C19: the rule_a of every reported SHD relationship has a blocking action
\* and matches at least one transaction of rule_b's match set.
C19_ShadowerBlocks ==
    \A r \in Reported :
        r.relationship_type = "SHD" =>
            /\ Lower(RowOf(r.rule_a).action) \in {"block", "blocked", "deny"}
            /\ MatchSet(r.rule_a) \cap MatchSet(r.rule_b) # {}
\* an SHD relationship whose rule_a does not block, reported because another
\* rule before rule_b does
C19_OtherRuleBlocks ==
    \E r \in Reported :
        /\ r.relationship_type = "SHD"
        /\ Lower(RowOf(r.rule_a).action) \notin {"block", "blocked", "deny"}
        /\ PreBlocked(r.rule_b) = MatchSet(r.rule_b)

\* C20: the rule_a of every reported SHD relationship has a strictly smaller
\* (phase, priority), as the rule file gives them, than its rule_b; none is
\* reported between two rules of the same phase and the same priority.
C20_StrictlyEarlierKey ==
    \A r \in Reported :
        r.relationship_type = "SHD" =>
            KeyLess(RawKey(RowOf(r.rule_a)), RawKey(RowOf(r.rule_b)))
\* an SHD relationship between two rules of the same phase and priority, both
\* given in the rule file and different from 0
C20_TiedShadow ==
    \E r \in Reported :
        /\ r.relationship_type = "SHD"
        /\ RawKey(RowOf(r.rule_a)) = RawKey(RowOf(r.rule_b))
        /\ RowOf(r.rule_a).phase = 1 /\ RowOf(r.rule_a).priority = 1

-----------------------------------------------------------------------------
(* Redundancy *)

\* the RXD relationships reported for the pair (a, b)
RedundantsOf(a, b) ==
    {r \in Reported : r.relationship_type = "RXD" /\ r.rule_a = a /\ r.rule_b = b}
\* |A n B| / max(1, min(|A|, |B|)) > 0.85 for the match sets A and B
OverlapPasses(A, B) ==
    100 * Cardinality(A \cap B) > 85 * Max(1, Min(Cardinality(A), Cardinality(B)))
\* |A n B| / |A u B| > 0.7 for the match sets A and B
JaccardPasses(A, B) ==
    A \cup B # {} /\ 10 * Cardinality(A \cap B) > 7 * Cardinality(A \cup B)

\* C21: with RXD requested, a pair whose analysis has returned has an RXD
\* relationship iff |A n B| / max(1, min(|A|, |B|)) > 0.85 and
\* |A n B| / |A u B| > 0.7, both; its confidence is the first quotient and its
\* jaccard the second.
C21_RedundantIffBoth ==
    "RXD" \in analysis_types =>
        \A ab \in CompletedPairs :
            LET A == MatchSet(ab[1])
                B == MatchSet(ab[2])
            IN /\ RedundantsOf(ab[1], ab[2]) # {}
                    <=> (OverlapPasses(A, B) /\ JaccardPasses(A, B))
               /\ \A r \in RedundantsOf(ab[1], ab[2]) :
                    /\ r.confidence = <<Cardinality(A \cap B),
                                        Max(1, Min(Cardinality(A), Cardinality(B)))>>
                    /\ r.jaccard = <<Cardinality(A \cap B), Cardinality(A \cup B)>>
\* a pair that passes the overlap threshold alone has been analyzed
C21_OneThresholdOnly ==
    /\ "RXD" \in analysis_types
    /\ \E ab \in CompletedPairs :
        /\ OverlapPasses(MatchSet(ab[1]), MatchSet(ab[2]))
        /\ ~JaccardPasses(MatchSet(ab[1]), MatchSet(ab[2]))
        /\ MatchSet(ab[1]) \cap MatchSet(ab[2]) # {}

-----------------------------------------------------------------------------
(* Subsumption *)

\* the SUB relationships reported with x as subsuming and y as subsumed rule
SubsOf(x, y) ==
    {r \in Reported : r.relationship_type = "SUB"
                      /\ r.subsuming_rule = x /\ r.subsumed_rule = y}
\* a quotient of two counts is at least 0.99
AtLeastThreshold(q) == 100 * q[1] >= 99 * q[2]
\* max(|set_x n set_y| / |set_y|, fuzz_contained(x, y)) >= 0.99 for a non-empty set_y
ContainmentHolds(x, y) ==
    \/ AtLeastThreshold(<<Cardinality(MatchSet(x) \cap MatchSet(y)), Cardinality(MatchSet(y))>>)
    \/ AtLeastThreshold(FuzzContainmentTest(x, y, sample_fuzz_trials, 0))

\* C22: with SUB requested, a pair whose analysis has returned has, for each
\* of its two directions (x, y), a SUB relationship with x subsuming y iff y's
\* match set is non-empty and the larger of |set_x n set_y| / |set_y| and the
\* fuzz containment of y in x is at least 0.99; each direction is decided on
\* its own, and two rules with the same non-empty match set have exactly the
\* two SUB relationships, one per direction.
C22_SubsumesIffContained ==
    "SUB" \in analysis_types =>
        \A ab \in CompletedPairs :
            /\ \A xy \in {ab, <<ab[2], ab[1]>>} :
                SubsOf(xy[1], xy[2]) # {}
                  <=> (MatchSet(xy[2]) # {} /\ ContainmentHolds(xy[1], xy[2]))
            /\ (MatchSet(ab[1]) = MatchSet(ab[2]) /\ MatchSet(ab[1]) # {}) =>
                /\ Cardinality(SubsOf(ab[1], ab[2])) = 1
                /\ Cardinality(SubsOf(ab[2], ab[1])) = 1
\* an analysis has returned that found one direction of a pair to hold and the
\* other not, both match sets being non-empty
C22_OneDirection ==
    /\ pc = "returned"
    /\ \E ab \in CompletedPairs :
        /\ MatchSet(ab[1]) # {} /\ MatchSet(ab[2]) # {}
        /\ SubsOf(ab[1], ab[2]) # {} /\ SubsOf(ab[2], ab[1]) = {}

-----------------------------------------------------------------------------
(* RXD, COR and SUB with and without SHD *)

\* the reported relationships of the types other than SHD
ReportedOthers == {r \in Reported : r.relationship_type # "SHD"}
\* the RXD, COR and SUB relationships of the requested types that the pair
\* (a, b) has by its match sets
OthersOfPair(a, b) ==
    Range(AnalyzeRulePair(a, b, analysis_types \ {"SHD"}, rule_ids, sample_fuzz_trials, 0))
\* those of all the pairs of a set of pairs
OthersOfPairs(pairs) == UNION {OthersOfPair(ab[1], ab[2]) : ab \in pairs}

-----------------------------------------------------------------------------
(* The containment fuzzer *)

\* the transactions of rule y whose text the fuzzer tests: the first
\* sample_fuzz_trials of the first 200 of y's match set
FuzzSample(y) ==
    Range(Take(Take(SetToSeq(MatchSet(y)), 200), sample_fuzz_trials))
\* the calls of the fuzzer, as <<sub, spec>>, made for the pairs analyzed so far
FuzzerCalls ==
    IF "SUB" \in analysis_types
    THEN {xy \in UNION {{ab, <<ab[2], ab[1]>>} : ab \in AnalyzedPairs} : MatchSet(xy[2]) # {}}
    ELSE {}

\* C24: every string the containment fuzzer tests is the text of a matched
\* transaction of the spec rule as the match matrix builds it (request_uri,
\* user_agent, matched_data, missing fields omitted), so that the fuzz
\* containment of y in x over the sample S of y's transactions is
\* |set_x n S| / |S|.
C24_FuzzIsTrafficContainment ==
    \A xy \in FuzzerCalls :
        /\ \A tx \in FuzzSample(xy[2]) :
            FuzzText(TrafficRow(tx)) = RowRequestText(TrafficRow(tx))
        /\ FuzzSample(xy[2]) # {} =>
            FuzzContainmentTest(xy[1], xy[2], sample_fuzz_trials, 0)
              = <<Cardinality(MatchSet(xy[1]) \cap FuzzSample(xy[2])),
                  Cardinality(FuzzSample(xy[2]))>>
\* the fuzzer found a rule to accept every tested string of a spec rule none
\* of whose transactions it matches
C24_FuzzHitsUnmatched ==
    \E xy \in FuzzerCalls :
        /\ FuzzSample(xy[2]) # {}
        /\ MatchSet(xy[1]) \cap FuzzSample(xy[2]) = {}
        /\ FuzzContainmentTest(xy[1], xy[2], sample_fuzz_trials, 0)
             = <<Cardinality(FuzzSample(xy[2])), Cardinality(FuzzSample(xy[2]))>>

-----------------------------------------------------------------------------
(* The match matrix *)

\* the transactions whose text the matcher cre accepts without raising
AcceptedBy(cre) ==
    {traffic_df[n].transaction_id :
        n \in {m \in 1..Len(traffic_df) :
                 /\ ~SearchRaises(cre, RowRequestText(traffic_df[m]))
                 /\ Search(cre, RowRequestText(traffic_df[m]))}}
\* the matcher of the k-th rule raises on some transaction
RaisesSomewhere(k) ==
    /\ compiled[k] # NoneRe
    /\ \E n \in 1..Len(traffic_df) : SearchRaises(compiled[k], RowRequestText(traffic_df[n]))

\* C25: the match set of every rule with a matcher is the set of transactions
\* its matcher accepts, those on which the matcher raises left out and nothing
\* else, whatever the matchers of the other rules do; a rule without compiled
\* matcher has the empty match set.
C25_OnlyRaisingCellSkipped ==
    \A k \in 1..Len(rules_df) :
        MatchSet(rules_df[k].rule_id)
          = IF compiled[k] = NoneRe THEN {} ELSE AcceptedBy(compiled[k])
\* an analysis has returned for rules one of which has a matcher that raised on
\* a transaction and still has matches, as has the other rule
C25_RaisedAndMatched ==
    /\ pc = "returned"
    /\ \E k \in 1..Len(rules_df) :
        /\ RaisesSomewhere(k)
        /\ MatchSet(rules_df[k].rule_id) # {}
        /\ \E m \in 1..Len(rules_df) : m # k /\ MatchSet(rules_df[m].rule_id) # {}

-----------------------------------------------------------------------------
(* The rule_a of shadowing *)

\* the relationships are those of one analysis, the first of the analyzer
FirstAnalysis ==
    returned = <<>> \/ (Len(returned) = 1 /\ pc \in {"returned", "responded"})

\* C26: every reported SHD relationship has the first rule of the execution
\* order as its rule_a, and within one analysis no rule is the rule_b of two
\* SHD relationships.
C26_FirstRuleShadows ==
    /\ \A r \in Reported : r.relationship_type = "SHD" => r.rule_a = rule_ids[1]
    /\ FirstAnalysis =>
        \A p, q \in 1..Len(relationships) :
            (/\ relationships[p].relationship_type = "SHD"
             /\ relationships[q].relationship_type = "SHD"
             /\ relationships[p].rule_b = relationships[q].rule_b) => p = q
\* an analysis has returned an SHD relationship for a rule b whose transactions
\* the first rule does not match: a later rule before b blocks them
C26_LaterRuleBlocks ==
    /\ pc = "returned"
    /\ \E r \in Reported :
        /\ r.relationship_type = "SHD"
        /\ MatchSet(rule_ids[1]) \cap MatchSet(r.rule_b) = {}

-----------------------------------------------------------------------------
(* The random fallback of the fuzzer *)

\* the numbers of hits a pass over random strings can report
RandomHits == 0..Min(sample_fuzz_trials, RandomTrialCap)
\* the analyzed pairs whose analysis did not raise
PairsDone ==
    {ab \in AnalyzedPairs :
        ~PairRaises(ab[1], ab[2], analysis_types, sample_fuzz_trials)}
\* the pair that the loop analyzed last, if its analysis did not raise
LastPairDone ==
    IF pc = "loop" /\ analyzed # <<>> THEN {analyzed[Len(analyzed)]} \cap PairsDone ELSE {}

\* C27: during an analysis the containment fuzzer is invoked only with a spec
\* rule whose match set is not empty, so that no containment test, and no
\* relationship of a pair, as the loop has just analyzed it, depends on what
\* the random strings of the fallback would hit.
C27_RandomNeverUsed ==
    /\ \A ab \in AnalyzedPairs :
        \A c \in FuzzCalls(ab[1], ab[2]) : MatchSet(c[2]) # {}
    /\ "SUB" \in analysis_types =>
        \A ab \in LastPairDone : \A h \in RandomHits :
            DetectSubsumption(ab[1], ab[2], MatchSet(ab[1]), MatchSet(ab[2]),
                              sample_fuzz_trials, h)
              = DetectSubsumption(ab[1], ab[2], MatchSet(ab[1]), MatchSet(ab[2]),
                                  sample_fuzz_trials, 0)
\* a subsumption analysis has returned in which a rule without any matched
\* transaction was paired with a rule whose matcher compiled
C27_EmptySpecAnalyzed ==
    /\ pc = "returned"
    /\ "SUB" \in analysis_types
    /\ sample_fuzz_trials > 0
    /\ \E ab \in PairsDone : \E xy \in {ab, <<ab[2], ab[1]>>} :
        /\ MatchSet(xy[2]) = {}
        /\ compiled[IndexOf(xy[1])] # NoneRe

-----------------------------------------------------------------------------
(* The result of the fuzzer *)

\* the call <<sub, spec>> of the fuzzer returns a proportion between 0 and 1
FuzzInUnitInterval(xy) ==
    LET f == FuzzContainmentTest(xy[1], xy[2], sample_fuzz_trials, 0)
    IN f[2] > 0 /\ 0 <= f[1] /\ f[1] <= f[2]

\* C28: for every sample_fuzz_trials >= 0 and every pair, each call of the
\* containment fuzzer returns a proportion between 0 and 1 and does not raise,
\* whether a matcher raises on a tested string or no string is tested, and the
\* analysis is not ended by it.
C28_FuzzReturnsProportion ==
    /\ \A xy \in FuzzerCalls :
        /\ ~FuzzRaises(xy[1], xy[2], sample_fuzz_trials)
        /\ FuzzInUnitInterval(xy)
    /\ ~(pc = "raised" /\ analyzed # <<>>)
\* the fuzzer was called with sample_fuzz_trials = 0 for a spec rule that has
\* matched transactions, and the analysis ended with its exception
C28_NoneTested ==
    /\ pc = "raised"
    /\ sample_fuzz_trials = 0
    /\ \E xy \in FuzzerCalls :
        /\ MatchSet(xy[2]) # {}
        /\ FuzzExamples(xy[2], sample_fuzz_trials) = <<>>
        /\ FuzzRaises(xy[1], xy[2], sample_fuzz_trials)

-----------------------------------------------------------------------------
(* Evidence counts *)

\* the number of transactions that support the relationship r
Supporting(r) ==
    IF r.relationship_type = "SHD"
    THEN Cardinality({tx \in MatchSet(r.rule_b) : BlockedBefore(tx, r.rule_b)})
    ELSE IF r.relationship_type = "SUB"
    THEN Cardinality(MatchSet(r.subsuming_rule) \cap MatchSet(r.subsumed_rule))
    ELSE Cardinality(MatchSet(r.rule_a) \cap MatchSet(r.rule_b))

\* C29: the evidence_count of every reported relationship is the full number
\* of transactions that support it (the transactions of rule_b blocked by an
\* earlier rule for SHD, the common transactions of the two rules for RXD, COR
\* and SUB), also when more than 10 support it and the id list holds only 10.
C29_CountIsFull ==
    \A r \in Reported : r.evidence_count = Supporting(r)
\* a SUB relationship of two rules with more than 10 common transactions
\* whose evidence_count is the length of the id list
C29_SubCountCut ==
    \E r \in Reported :
        /\ r.relationship_type = "SUB"
        /\ Supporting(r) > EvidenceCap
        /\ r.evidence_count = Len(r.evidence_tx_ids)
        /\ r.evidence_count = EvidenceCap

-----------------------------------------------------------------------------
(* The rows of one analysis *)

\* no two rules of rules_df have the same rule_id
UniqueRuleIds == Cardinality(RuleIdSet) = Len(rules_df)
\* the relationships of the one returned result, as analyze_rules reads them
RowsToStore == StoredOrder(returned[1])

\* C30: in the result of one analysis over rules with unique ids, every
\* relationship has a rule_a and a rule_b that are not null as the persistence
\* step reads them, and no two relationships have the same
\* (relationship_type, rule_a, rule_b) there, so that no create fails on the
\* unique constraint.
C30_RowsAreDistinct ==
    (Len(returned) = 1 /\ UniqueRuleIds) =>
        /\ \A k \in 1..Len(RowsToStore) :
            RowsToStore[k].rule_a # None /\ RowsToStore[k].rule_b # None
        /\ \A k, m \in 1..Len(RowsToStore) :
            RowKey(RowsToStore[k]) = RowKey(RowsToStore[m]) => k = m
        /\ FirstFailure(RowsToStore) = 0
\* the database was reachable and analyze_rules answered 500, after storing
\* the rows before the first SUB relationship, whose key is (SUB, null, null)
C30_SubRowRejected ==
    /\ pc = "responded" /\ Len(returned) = 1 /\ UniqueRuleIds
    /\ response.status = 500
    /\ FirstFailure(RowsToStore) # 0
    /\ db_rows = RowsStored(RowsToStore)
    /\ db_rows # <<>>
    /\ RowKey(RowsToStore[FirstFailure(RowsToStore)]) = <<"SUB", None, None>>

====
